---- MODULE Spec2Model ----
(***************************************************************************)
(* Model of the photometer bound engine of src/reference.cpp: class Sample *)
(* (the decoded evidence and its predicates) and class Photometer (two     *)
(* std::multimap<double, Sample> keyed by end, consume, lower, upper,      *)
(* estimate and the as-of copy constructor).                               *)
(*                                                                         *)
(* Times are small integers standing for the monotonic seconds (the code   *)
(* only compares and adds them).  Values are physical units; every value   *)
(* of the model is even, so 0.5*(lower + upper) is exact as \div 2.        *)
(***************************************************************************)
EXTENDS Integers, Sequences, FiniteSets

(* ------------------------------ bounds --------------------------------- *)

\* most entries the two collections hold together
MaxSize == 2

\* latest query time of estimate(now) (query times are 0..MaxQueryTime)
MaxQueryTime == 2

\* <<start, end>> of the consumed samples: equal starts with different ends,
\* equal ends with different starts, and an end that meets a later start
Intervals == {<<0, 1>>, <<0, 2>>, <<1, 2>>}

\* confidences of the consumed samples (a subset of the 2-bit field 0..3)
Confidences == {0, 1}

\* values of the consumed samples, all inside the sentinels' range
Values == {20000, 60000}

(* ------------------------- program constants --------------------------- *)

\* value of universal_lower
UniversalLowerValue == 0

\* value of universal_upper
UniversalUpperValue == 100000

\* std::numeric_limits<double>::lowest(), below every time of the model
DoubleLowest == -1000000

\* std::numeric_limits<double>::max(), above every time of the model
DoubleMax == 1000000

(* ------------------------------ Sample --------------------------------- *)

\* Sample(start, end, sign, value, clear, confidence)
Sample(start, end, sign, value, clear, confidence) ==
    [start |-> start, end |-> end, sign |-> sign, value |-> value,
     clear |-> clear, confidence |-> confidence]

\* Sample(bool universal_sign)
Universal(universal_sign) ==
    Sample(DoubleLowest, DoubleMax, universal_sign,
           IF universal_sign THEN UniversalUpperValue ELSE UniversalLowerValue,
           FALSE, 0)

universal_lower == Universal(FALSE)

universal_upper == Universal(TRUE)

\* the samples the model consumes
Samples ==
    { Sample(iv[1], iv[2], sg, v, c, cf) :
        iv \in Intervals, sg \in BOOLEAN,
        v \in Values, c \in BOOLEAN, cf \in Confidences }

\* the query times of estimate(now)
Times == 0..MaxQueryTime

\* Sample::conflicts
conflicts(a, other) ==
    \/ (a.sign /\ ~other.sign /\ a.value < other.value)
    \/ (~a.sign /\ other.sign /\ a.value > other.value)

\* a mutant of is_superset_of: the value must be strictly tighter
is_strict_superset_of(a, other) ==
    /\ a.end >= other.end
    /\ \/ (a.sign /\ other.sign /\ a.value < other.value)
       \/ (~a.sign /\ ~other.sign /\ a.value > other.value)

\* Sample::is_superset_of
is_superset_of(a, other) ==
    /\ a.end >= other.end
    /\ \/ (a.sign /\ other.sign /\ a.value <= other.value)
       \/ (~a.sign /\ ~other.sign /\ a.value >= other.value)

\* a mutant of overrides: no tie-break on equal confidence
overrides_confidence_only(a, other) ==
    IF conflicts(a, other)
    THEN a.confidence > other.confidence
    ELSE FALSE

\* a mutant of overrides: the equal-confidence tie-break favours the later start
overrides_latest(a, other) ==
    IF conflicts(a, other)
    THEN \/ a.confidence > other.confidence
         \/ (a.confidence = other.confidence /\ a.start > other.start)
    ELSE FALSE

\* a mutant of overrides: an equal start also wins the equal-confidence tie
overrides_on_tie(a, other) ==
    IF conflicts(a, other)
    THEN \/ a.confidence > other.confidence
         \/ (a.confidence = other.confidence /\ a.start <= other.start)
    ELSE FALSE

\* Sample::overrides
overrides(a, other) ==
    IF conflicts(a, other)
    THEN \/ a.confidence > other.confidence
         \/ (a.confidence = other.confidence /\ a.start < other.start)
    ELSE FALSE

\* Sample::resolve_lower
resolve_lower(a, other) == IF a.value > other.value THEN a ELSE other

\* Sample::resolve_upper
resolve_upper(a, other) == IF a.value < other.value THEN a ELSE other

(* ------------------- std::multimap<double, Sample> --------------------- *)

\* an element of MapT: std::pair<const double, Sample>
Pair(key, sample) == [first |-> key, second |-> sample]

\* a mutant of upper_bound: std::lower_bound, the first key not less than k
lower_bound(m, k) ==
    CHOOSE i \in 1..(Len(m) + 1) :
        /\ \A j \in 1..(i - 1) : m[j].first < k
        /\ i = Len(m) + 1 \/ m[i].first >= k

\* MapT::upper_bound: the position of the first element whose key is greater
\* than k, Len(m) + 1 standing for cend()
upper_bound(m, k) ==
    CHOOSE i \in 1..(Len(m) + 1) :
        /\ \A j \in 1..(i - 1) : m[j].first <= k
        /\ i = Len(m) + 1 \/ m[i].first > k

\* a mutant of emplace: keyed by the sample's start
emplace_by_start(m, key, sample) ==
    LET i == upper_bound(m, sample.start)
    IN  SubSeq(m, 1, i - 1) \o <<Pair(sample.start, sample)>> \o SubSeq(m, i, Len(m))

\* MapT::emplace(key, sample): the element goes after the last element whose
\* key is not greater than key
emplace(m, key, sample) ==
    LET i == upper_bound(m, key)
    IN  SubSeq(m, 1, i - 1) \o <<Pair(key, sample)>> \o SubSeq(m, i, Len(m))

\* MapT::erase(cbegin(), upper_bound(now))
erase_upto(m, now) == SubSeq(m, upper_bound(m, now), Len(m))

\* MapT(first, last) of the as-of constructor: the elements from
\* upper_bound(future) to cend(), in order
copy_from(m, future) == SubSeq(m, upper_bound(m, future), Len(m))

(* ---------------------------- Photometer ------------------------------- *)

VARIABLES
    lower_by_end,   \* Photometer::lower_by_end
    upper_by_end,   \* Photometer::upper_by_end
    call            \* the last call made on the engine, with its argument and result

vars == <<lower_by_end, upper_by_end, call>>

\* a Photometer value: the two collections
Meter(l, u) == [lower_by_end |-> l, upper_by_end |-> u]

\* the live engine
meter == Meter(lower_by_end, upper_by_end)

\* a mutant of as_of: the lower collection is copied whole
as_of_lower_unfiltered(current, future) ==
    Meter(current.lower_by_end, copy_from(current.upper_by_end, future))

\* Photometer::Photometer(const Photometer &current, double future)
as_of(current, future) ==
    Meter(copy_from(current.lower_by_end, future),
          copy_from(current.upper_by_end, future))

\* Photometer::size
size(p) == Len(p.lower_by_end) + Len(p.upper_by_end)

\* a mutant of erase_old: the upper collection is left as it is
erase_old_lower_only(p, now) ==
    Meter(erase_upto(p.lower_by_end, now), p.upper_by_end)

\* Photometer::erase_old
erase_old(p, now) ==
    Meter(erase_upto(p.lower_by_end, now), erase_upto(p.upper_by_end, now))

\* a mutant of clear_all: only the collection of the sample's direction is wiped
clear_target(p, sample) ==
    IF sample.sign THEN Meter(p.lower_by_end, <<>>) ELSE Meter(<<>>, p.upper_by_end)

\* the clearing branch of consume: both collections are cleared
clear_all(p, sample) == Meter(<<>>, <<>>)

\* a mutant of find_superset: the test is sample.is_superset_of(other.second)
find_subset(target, sample) ==
    \E i \in 1..Len(target) : is_superset_of(sample, target[i].second)

\* std::find_if over target with other.second.is_superset_of(sample):
\* TRUE when an element is found (subset_of != target.cend())
find_superset(target, sample) ==
    \E i \in 1..Len(target) : is_superset_of(target[i].second, sample)

\* a mutant of insert_unless_subset: the sample is always inserted
insert_always(p, sample) ==
    IF sample.sign
    THEN Meter(p.lower_by_end, emplace(p.upper_by_end, sample.end, sample))
    ELSE Meter(emplace(p.lower_by_end, sample.end, sample), p.upper_by_end)

\* a mutant of insert_unless_subset: the target is the collection of the
\* other direction
insert_into_other(p, sample) ==
    LET target == IF sample.sign THEN p.lower_by_end ELSE p.upper_by_end
    IN  IF find_superset(target, sample)
        THEN p
        ELSE IF sample.sign
             THEN Meter(emplace(target, sample.end, sample), p.upper_by_end)
             ELSE Meter(p.lower_by_end, emplace(target, sample.end, sample))

\* the second half of consume: target selection, find_if and emplace
insert_unless_subset(p, sample) ==
    LET target == IF sample.sign THEN p.upper_by_end ELSE p.lower_by_end
    IN  IF find_superset(target, sample)
        THEN p
        ELSE IF sample.sign
             THEN Meter(p.lower_by_end, emplace(target, sample.end, sample))
             ELSE Meter(emplace(target, sample.end, sample), p.upper_by_end)

\* a mutant of consume: erase_old is given the sample's end
consume_erasing_to_end(p, sample) ==
    insert_unless_subset(
        IF sample.clear THEN clear_all(p, sample) ELSE erase_old(p, sample.end),
        sample)

\* a mutant of consume: a sample that does not clear erases nothing
consume_without_erase(p, sample) ==
    insert_unless_subset(
        IF sample.clear THEN clear_all(p, sample) ELSE p,
        sample)

\* Photometer::consume(const Sample &sample), as a function of the engine
consume(p, sample) ==
    insert_unless_subset(
        IF sample.clear THEN clear_all(p, sample) ELSE erase_old(p, sample.start),
        sample)

\* the inner loop of lower(): keep is false when an upper entry overrides kvl
overridden(by, kv) ==
    \E i \in 1..Len(by) : overrides(by[i].second, kv.second)

\* the outer loop of lower() from element i on, effective_lower being the
\* sample folded so far
RECURSIVE lower_from(_, _, _)
lower_from(p, i, effective_lower) ==
    IF i > Len(p.lower_by_end)
    THEN effective_lower
    ELSE LET kvl == p.lower_by_end[i]
         IN  lower_from(p, i + 1,
                 IF overridden(p.upper_by_end, kvl)
                 THEN effective_lower
                 ELSE resolve_lower(effective_lower, kvl.second))

\* Photometer::lower
lower(p) == lower_from(p, 1, universal_lower).value

\* the outer loop of upper() from element i on
RECURSIVE upper_from(_, _, _)
upper_from(p, i, effective_upper) ==
    IF i > Len(p.upper_by_end)
    THEN effective_upper
    ELSE LET kvu == p.upper_by_end[i]
         IN  upper_from(p, i + 1,
                 IF overridden(p.lower_by_end, kvu)
                 THEN effective_upper
                 ELSE resolve_upper(effective_upper, kvu.second))

\* Photometer::upper
upper(p) == upper_from(p, 1, universal_upper).value

\* a mutant of estimate: the sum of the bounds, not their mean
estimate_sum(p) == lower(p) + upper(p)

\* Photometer::estimate(): 0.5*(lower() + upper())
estimate(p) == (lower(p) + upper(p)) \div 2

\* Photometer::estimate(double now)
estimate_at(p, now) == estimate(as_of(p, now))

(* ------------------------------ actions -------------------------------- *)

\* Photometer() = default: both collections empty
Init ==
    /\ lower_by_end = <<>>
    /\ upper_by_end = <<>>
    /\ call = [op |-> "new"]

\* meter.consume(sample)
Consume(sample) ==
    LET after == consume(meter, sample)
    IN  /\ size(after) <= MaxSize
        /\ lower_by_end' = after.lower_by_end
        /\ upper_by_end' = after.upper_by_end
        /\ call' = [op |-> "consume", sample |-> sample]

\* meter.estimate()
Estimate ==
    /\ call' = [op |-> "estimate", value |-> estimate(meter)]
    /\ UNCHANGED <<lower_by_end, upper_by_end>>

\* a mutant of EstimateAt: the expired entries are erased from the live engine
EstimateAtErasing(now) ==
    /\ call' = [op |-> "estimate_at", now |-> now, value |-> estimate_at(meter, now)]
    /\ lower_by_end' = erase_old(meter, now).lower_by_end
    /\ upper_by_end' = erase_old(meter, now).upper_by_end

\* meter.estimate(now): a const member that works on the copy as_of
EstimateAt(now) ==
    /\ call' = [op |-> "estimate_at", now |-> now, value |-> estimate_at(meter, now)]
    /\ UNCHANGED <<lower_by_end, upper_by_end>>

Next ==
    \/ \E sample \in Samples : Consume(sample)
    \/ Estimate
    \/ \E now \in Times : EstimateAt(now)

Spec == Init /\ [][Next]_vars

(* ------------------------- reading the state --------------------------- *)

\* the elements of m whose sample ends after t, in order
EndsAfter(m, t) ==
    LET live(kv) == kv.second.end > t
    IN  SelectSeq(m, live)

\* the engine holding exactly the entries that end after t
LiveAt(p, t) == Meter(EndsAfter(p.lower_by_end, t), EndsAfter(p.upper_by_end, t))

\* the samples stored in m
Stored(m) == { m[i].second : i \in 1..Len(m) }

\* the collection of the direction of sample
TargetOf(p, sample) == IF sample.sign THEN p.upper_by_end ELSE p.lower_by_end

\* the collection of the opposite direction
OtherOf(p, sample) == IF sample.sign THEN p.lower_by_end ELSE p.upper_by_end

\* the greatest and the least element of a non-empty set of numbers
SetMax(S) == CHOOSE x \in S : \A y \in S : y <= x

SetMin(S) == CHOOSE x \in S : \A y \in S : x <= y

\* the midpoint of the two universal sentinels
Midpoint == (UniversalLowerValue + UniversalUpperValue) \div 2

(* -------------------------------- C1 ----------------------------------- *)

\* C1: for every reachable state and every query time t, the snapshot of
\* estimate(t) holds exactly the stored entries with end > t (an entry with
\* end = T is in it for t < T and out of it for t >= T, t = T included), and
\* the value estimate(t) returned is the estimate over those entries.
C1_ExpiryBoundary ==
    /\ \A t \in Times : as_of(meter, t) = LiveAt(meter, t)
    /\ call.op = "estimate_at" => call.value = estimate(LiveAt(meter, call.now))

\* estimate(T) was called with entries stored that end exactly at T and entries
\* that end later, and the expired ones made a difference to the result
C1_Witness ==
    /\ call.op = "estimate_at"
    /\ \E s \in Stored(lower_by_end) \cup Stored(upper_by_end) : s.end = call.now
    /\ \E s \in Stored(lower_by_end) \cup Stored(upper_by_end) : s.end > call.now
    /\ call.value # estimate(meter)

(* -------------------------------- C2 ----------------------------------- *)

\* C2: after consume(e) with e.should_clear, size() is 1: the collection of
\* e's direction holds e alone, the other one is empty, and lower(), upper()
\* and every estimate(t) are those of e alone.
C2_ClearLeavesOne ==
    (call.op = "consume" /\ call.sample.clear) =>
        LET e == call.sample
        IN  /\ size(meter) = 1
            /\ TargetOf(meter, e) = <<Pair(e.end, e)>>
            /\ OtherOf(meter, e) = <<>>
            /\ lower(meter) = (IF e.sign THEN UniversalLowerValue ELSE e.value)
            /\ upper(meter) = (IF e.sign THEN e.value ELSE UniversalUpperValue)
            /\ \A t \in Times :
                 estimate_at(meter, t) =
                    IF e.end > t THEN (lower(meter) + upper(meter)) \div 2 ELSE Midpoint

\* a clearing sample was consumed
C2_Witness ==
    /\ call.op = "consume"
    /\ call.sample.clear
    /\ size(meter) = 1

(* -------------------------------- C3 ----------------------------------- *)

\* o and x are two elements of m, o a non-strict superset of x
SupersetPair(m, i, j) == i # j /\ is_superset_of(m[i].second, m[j].second)

\* C3 as claimed: no stored entry is a non-strict superset of another stored
\* entry of the same collection.
C3_NoStoredSuperset ==
    /\ \A i, j \in 1..Len(lower_by_end) : ~SupersetPair(lower_by_end, i, j)
    /\ \A i, j \in 1..Len(upper_by_end) : ~SupersetPair(upper_by_end, i, j)

\* C3 as amended: no stored entry is a non-strict superset of an entry that
\* follows it in its collection (the collection is ordered by end, and by
\* insertion among equal ends, so the follower was consumed while the entry
\* was stored); a superset may follow the entry it contains.
C3_NoSupersetOfFollower ==
    /\ \A i, j \in 1..Len(lower_by_end) : i < j => ~SupersetPair(lower_by_end, i, j)
    /\ \A i, j \in 1..Len(upper_by_end) : i < j => ~SupersetPair(upper_by_end, i, j)

\* two entries of one collection end together, and the one inserted last is
\* the tighter one
C3_Witness ==
    \E m \in {lower_by_end, upper_by_end} :
        \E i, j \in 1..Len(m) :
            /\ i < j
            /\ m[i].first = m[j].first
            /\ SupersetPair(m, j, i)

(* -------------------------------- C4 ----------------------------------- *)

\* the engine after the step
meter_next == Meter(lower_by_end', upper_by_end')

\* the step is a call of consume (call' names the call a step makes)
ConsumeStep == call'.op = "consume"

\* C4 as claimed: consuming an entry that is a superset of a stored entry of
\* its direction leaves size() unchanged.
C4_SupersetLeavesSize ==
    [][ConsumeStep =>
          LET e == call'.sample
          IN  (\E o \in Stored(TargetOf(meter, e)) : is_superset_of(e, o))
                 => size(meter_next) = size(meter)]_vars

\* C4 as amended: consuming a non-clearing entry e of which a stored,
\* unexpired entry o of its direction is a superset (o lasts at least as long
\* and is at least as tight, and o.end > e.start) does not insert e: size()
\* does not grow, it becomes the number of stored entries with end > e.start.
C4_SubsetNotInserted ==
    [][ConsumeStep =>
          LET e == call'.sample
          IN  (/\ ~e.clear
               /\ \E o \in Stored(TargetOf(meter, e)) :
                     o.end > e.start /\ is_superset_of(o, e))
                 => /\ size(meter_next) <= size(meter)
                    /\ size(meter_next) = size(LiveAt(meter, e.start))
                    /\ TargetOf(meter_next, e) = EndsAfter(TargetOf(meter, e), e.start)]_vars

\* a non-clearing sample was consumed and is not stored, a stored entry of its
\* direction being a looser-or-equal, longer-or-equal superset of it
C4_Witness ==
    /\ call.op = "consume"
    /\ ~call.sample.clear
    /\ call.sample \notin Stored(TargetOf(meter, call.sample))
    /\ \E o \in Stored(TargetOf(meter, call.sample)) : is_superset_of(o, call.sample)

(* -------------------------------- C5 ----------------------------------- *)

\* m with its element at position i removed
Without(m, i) == SubSeq(m, 1, i - 1) \o SubSeq(m, i + 1, Len(m))

\* the keys of m ascend
KeysAscend(m) == \A i, j \in 1..Len(m) : i < j => m[i].first <= m[j].first

\* C5: consume(e), e not clearing, first prunes the entries with end <= e.start.
\* If an entry o of the pruned target collection is a superset of e, e is not
\* inserted: the engine is the pruned engine, size() does not grow and
\* estimate(t) is what it was for every t >= e.start.  Otherwise e is inserted
\* keyed by e.end and the pruned size() grows by exactly 1.
C5_InsertUnlessSubset ==
    [][(ConsumeStep /\ ~call'.sample.clear) =>
          LET e == call'.sample
              pruned == LiveAt(meter, e.start)
          IN  IF \E o \in Stored(TargetOf(pruned, e)) : is_superset_of(o, e)
              THEN /\ meter_next = pruned
                   /\ size(meter_next) <= size(meter)
                   /\ \A t \in Times :
                        t >= e.start =>
                            \/ as_of(meter_next, t) = as_of(meter, t)
                            \/ estimate_at(meter_next, t) = estimate_at(meter, t)
              ELSE LET target == TargetOf(meter_next, e)
                       kv == Pair(e.end, e)
                   IN  /\ size(meter_next) = size(pruned) + 1
                       /\ OtherOf(meter_next, e) = OtherOf(pruned, e)
                       /\ KeysAscend(target)
                       /\ \E i \in 1..Len(target) :
                            /\ target[i] = kv
                            /\ Without(target, i) = TargetOf(pruned, e)]_vars

\* a non-clearing sample was discarded because an entry that started earlier
\* is a superset of it, while the collection of the other direction holds an entry
C5_Witness ==
    /\ call.op = "consume"
    /\ ~call.sample.clear
    /\ call.sample \notin Stored(TargetOf(meter, call.sample))
    /\ \E o \in Stored(TargetOf(meter, call.sample)) :
          is_superset_of(o, call.sample) /\ o.start < call.sample.start
    /\ OtherOf(meter, call.sample) # <<>>

(* -------------------------------- C6 ----------------------------------- *)

\* a and b conflict: the lower one's value is strictly greater than the upper one's
Contradict(a, b) ==
    /\ a.sign # b.sign
    /\ IF a.sign THEN b.value > a.value ELSE a.value > b.value

\* overrides(a, b) as C6 states it
Outranks(a, b) ==
    /\ Contradict(a, b)
    /\ \/ a.confidence > b.confidence
       \/ (a.confidence = b.confidence /\ a.start < b.start)

\* the values of the entries of m that no entry of by outranks
Contributing(m, by) ==
    { l.value : l \in { s \in Stored(m) : ~\E u \in Stored(by) : Outranks(u, s) } }

\* the live engine and its snapshot as of every query time
Snapshots == {meter} \cup { as_of(meter, t) : t \in Times }

\* m without the elements that hold sample s
Dropping(m, s) ==
    LET other(kv) == kv.second # s
    IN  SelectSeq(m, other)

\* C6: lower() is the greatest value among the universal lower sentinel and
\* the stored lower entries that no stored upper entry overrides; upper() is
\* the least value among the universal upper sentinel and the stored upper
\* entries that no stored lower entry overrides; in the live engine and in
\* every snapshot.  A lower entry l contradicted by an upper entry u of higher
\* confidence does not contribute as of the times at which u is live (lower()
\* is what it is without l), and contributes again as of the times at which u
\* has expired (lower() is at least l's value), unless another live upper
\* entry overrides it.
C6_FoldOfContributing ==
    /\ \A p \in Snapshots :
         /\ lower(p) = SetMax({UniversalLowerValue}
                                \cup Contributing(p.lower_by_end, p.upper_by_end))
         /\ upper(p) = SetMin({UniversalUpperValue}
                                \cup Contributing(p.upper_by_end, p.lower_by_end))
    /\ \A l \in Stored(lower_by_end), u \in Stored(upper_by_end), t \in Times :
         (Contradict(u, l) /\ u.confidence > l.confidence /\ l.end > t)
            => LET p == as_of(meter, t)
               IN  IF u.end > t
                   THEN lower(p) = lower(Meter(Dropping(p.lower_by_end, l), p.upper_by_end))
                   ELSE (\A u2 \in Stored(p.upper_by_end) : ~Outranks(u2, l))
                           => lower(p) >= l.value

\* estimate(t) was called with a lower entry stored that an upper entry of
\* higher confidence overrides, as of a time at which that upper entry has
\* expired and the lower entry has not: the lower entry decides the result
C6_Witness ==
    /\ call.op = "estimate_at"
    /\ \E l \in Stored(lower_by_end), u \in Stored(upper_by_end) :
          /\ overrides(u, l)
          /\ u.confidence > l.confidence
          /\ u.end <= call.now /\ call.now < l.end
          /\ call.value = (l.value + UniversalUpperValue) \div 2
          /\ lower(meter) = UniversalLowerValue

(* -------------------------------- C7 ----------------------------------- *)

\* the estimate when sample s alone bounds the quantity, the other bound
\* being the universal sentinel
DeterminedBy(s) ==
    IF s.sign
    THEN (UniversalLowerValue + s.value) \div 2
    ELSE (s.value + UniversalUpperValue) \div 2

\* the entry the engine stores when it stores exactly one
OnlyStored == CHOOSE x \in Stored(lower_by_end) \cup Stored(upper_by_end) : TRUE

\* the engine stores one entry and the step is a consume
SecondConsumeStep == ConsumeStep /\ size(meter) = 1

\* x and e are of opposite direction and conflict, with equal confidence and
\* different start
Tied(x, e) ==
    /\ conflicts(e, x)
    /\ e.confidence = x.confidence
    /\ e.start # x.start

\* the one of the two that started first
Earlier(x, e) == IF x.start < e.start THEN x ELSE e

\* the earlier entry decides estimate() and estimate(t) for every t before its end
EarlierDecides(x, e) ==
    /\ estimate(meter_next) = DeterminedBy(Earlier(x, e))
    /\ \A t \in Times :
         t < Earlier(x, e).end => estimate_at(meter_next, t) = DeterminedBy(Earlier(x, e))

\* C7 as claimed: of two conflicting entries of opposite direction with equal
\* confidence and different start, consumed in either order with nothing else
\* stored, the one with the earlier start determines the estimate right after
\* both are consumed and for every query time before its end.
C7_EarlierStartDecides ==
    [][SecondConsumeStep =>
          (Tied(OnlyStored, call'.sample)
              => EarlierDecides(OnlyStored, call'.sample))]_vars

\* C7 as amended: the same, provided the entry consumed second does not clear
\* and the entry consumed first has not expired at the second one's start
\* (its end is greater than that start), so that both are stored.
C7_EarlierStartDecidesWhenBothStored ==
    [][SecondConsumeStep =>
          ((/\ Tied(OnlyStored, call'.sample)
            /\ ~call'.sample.clear
            /\ OnlyStored.end > call'.sample.start)
              => EarlierDecides(OnlyStored, call'.sample))]_vars

\* two conflicting entries of equal confidence are stored, the one consumed
\* last having the earlier start, and the last consumed one decides the estimate
C7_Witness ==
    /\ call.op = "consume"
    /\ size(meter) = 2
    /\ \E x \in Stored(OtherOf(meter, call.sample)) :
          /\ conflicts(call.sample, x)
          /\ call.sample.confidence = x.confidence
          /\ call.sample.start < x.start
          /\ call.sample \in Stored(TargetOf(meter, call.sample))
          /\ estimate(meter) = DeterminedBy(call.sample)

(* -------------------------------- C8 ----------------------------------- *)

\* the step consumes a lower entry into an engine that stores lower entries only
LowerOnlyStep == ConsumeStep /\ ~call'.sample.sign /\ upper_by_end = <<>>

\* the step consumes an upper entry into an engine that stores upper entries only
UpperOnlyStep == ConsumeStep /\ call'.sample.sign /\ lower_by_end = <<>>

\* the consume of e removes no stored entry
RemovesNothing(e) == ~e.clear /\ LiveAt(meter, e.start) = meter

\* C8 as claimed: across consumes of same-direction entries lower() never
\* decreases from one consume to the next (lower entries) and upper() never
\* increases (upper entries).
C8_MonotonicNarrowing ==
    [][/\ LowerOnlyStep => lower(meter_next) >= lower(meter)
       /\ UpperOnlyStep => upper(meter_next) <= upper(meter)]_vars

\* C8 as amended: lower() does not decrease (upper() does not increase) from
\* one consume to the next when the consumed entry is at least as tight as the
\* current bound, or when the consume removes no stored entry (it does not
\* clear and no stored entry has end <= its start).
C8_NarrowingWhenTighterOrNothingRemoved ==
    [][/\ (LowerOnlyStep /\ (call'.sample.value >= lower(meter)
                               \/ RemovesNothing(call'.sample)))
             => lower(meter_next) >= lower(meter)
       /\ (UpperOnlyStep /\ (call'.sample.value <= upper(meter)
                               \/ RemovesNothing(call'.sample)))
             => upper(meter_next) <= upper(meter)]_vars

\* a tighter lower entry was consumed after a looser one, both are stored and
\* lower() is the tighter value
C8_Witness ==
    /\ call.op = "consume"
    /\ ~call.sample.sign
    /\ upper_by_end = <<>>
    /\ Len(lower_by_end) = 2
    /\ lower(meter) = call.sample.value
    /\ \E s \in Stored(lower_by_end) : s.value < call.sample.value

(* -------------------------------- C9 ----------------------------------- *)

\* the step is a call of estimate() or estimate(t)
EstimateStep == call'.op \in {"estimate", "estimate_at"}

\* C9: estimate(t) (and estimate()) leaves both collections, and so size(),
\* as they were; hence estimate() and every estimate(t2) give after the call
\* what they gave before it.
C9_EstimateIsReadOnly ==
    [][EstimateStep =>
          /\ lower_by_end' = lower_by_end
          /\ upper_by_end' = upper_by_end
          /\ size(meter_next) = size(meter)
          /\ estimate(meter_next) = estimate(meter)
          /\ \A t2 \in Times : estimate_at(meter_next, t2) = estimate_at(meter, t2)]_vars

\* estimate(t) was called as of a time at which a stored entry has expired,
\* and that entry is still stored
C9_Witness ==
    /\ call.op = "estimate_at"
    /\ size(meter) = MaxSize
    /\ \E s \in Stored(lower_by_end) \cup Stored(upper_by_end) : s.end <= call.now
    /\ size(as_of(meter, call.now)) < size(meter)

(* -------------------------------- C10 ---------------------------------- *)

\* no stored entry ends after t
AllExpiredAt(t) ==
    \A s \in Stored(lower_by_end) \cup Stored(upper_by_end) : ~(s.end > t)

\* C10: on a freshly constructed engine size() is 0 and estimate() and every
\* estimate(t) are 50000; in any state estimate(t) is 50000, the midpoint of
\* the two universal sentinels, when no stored entry has end > t.
C10_EmptyEstimate ==
    /\ call.op = "new" =>
          /\ size(meter) = 0
          /\ estimate(meter) = 50000
          /\ \A t \in Times : estimate_at(meter, t) = 50000
    /\ Midpoint = 50000
    /\ \A t \in Times : AllExpiredAt(t) => estimate_at(meter, t) = Midpoint
    /\ (call.op = "estimate_at" /\ AllExpiredAt(call.now)) => call.value = 50000

\* estimate(t) returned 50000 with entries stored that have all expired at t
\* and that move estimate() away from 50000
C10_Witness ==
    /\ call.op = "estimate_at"
    /\ size(meter) > 0
    /\ AllExpiredAt(call.now)
    /\ call.value = 50000
    /\ estimate(meter) # 50000

(* -------------------------------- C11 ---------------------------------- *)

\* C11: in every reachable state every entry of the lower collection has
\* direction lower (sign false) and every entry of the upper collection has
\* direction upper (sign true).
C11_DirectionOfCollections ==
    /\ \A s \in Stored(lower_by_end) : ~s.sign
    /\ \A s \in Stored(upper_by_end) : s.sign

\* a sample was consumed into an engine that holds entries of both directions,
\* one of them consumed with should_clear set
C11_Witness ==
    /\ call.op = "consume"
    /\ lower_by_end # <<>>
    /\ upper_by_end # <<>>
    /\ \E s \in Stored(lower_by_end) \cup Stored(upper_by_end) : s.clear

(* --------------------------- RawSample, codec -------------------------- *)
(* Times of the codec are counted in ticks of 0.0165 s, the horizon of      *)
(* exponent 0, so that horizon_s() is the integer 2^horizon.                *)

\* latest timestamp of a decoded packet (timestamps are 0..MaxStamp)
MaxStamp == 1

\* the timestamps of the decoded packets
Stamps == 0..MaxStamp

\* the two raw bytes of a packet
Packets == { <<b0, b1>> : b0 \in 0..255, b1 \in 0..255 }

\* the value of an 8-bit two's complement pattern (int16_t value: 8)
as_int8(n) == ((n + 128) % 256) - 128

\* struct RawSample
RawSample(confidence, clear, value, sign, horizon) ==
    [confidence |-> confidence, clear |-> clear, value |-> value,
     sign |-> sign, horizon |-> horizon]

\* a mutant of unpack: the fields are allocated from the most significant bit
unpack_msb_first(data) ==
    RawSample(data[1] \div 64,
              (data[1] \div 32) % 2,
              as_int8((data[1] % 32) * 8 + data[2] \div 32),
              (data[2] \div 16) % 2,
              data[2] % 16)

\* std::memcpy(&raw, data, kBytes): the bit-fields of RawSample over the two
\* bytes, allocated from the least significant bit of the first byte
\* (the layout test_serialise asserts)
unpack(data) ==
    RawSample(data[1] % 4,
              (data[1] \div 4) % 2,
              as_int8(data[1] \div 8 + 32 * (data[2] % 8)),
              (data[2] \div 8) % 2,
              data[2] \div 16)

\* the two bytes of a RawSample (reinterpret_cast<const uint8_t*>)
bytes(raw) ==
    LET v == raw.value % 256
    IN  << raw.confidence + 4 * raw.clear + 8 * (v % 32),
           v \div 32 + 8 * raw.sign + 16 * raw.horizon >>

\* RawSample::value_lx
value_lx(raw) == 50000 + 390 * raw.value

\* RawSample::horizon_s, in ticks of 0.0165 s
horizon_s(raw) == 2 ^ raw.horizon

\* Sample(double now, const RawSample &raw)
SampleOfRaw(now, raw) ==
    Sample(now, now + horizon_s(raw), raw.sign = 1, value_lx(raw),
           raw.clear = 1, raw.confidence)

\* Sample::from_raw
from_raw(now, data) == SampleOfRaw(now, unpack(data))

\* static_cast<int16_t>(x / q): the quotient truncated toward zero
truncated(n, q) == IF n >= 0 THEN n \div q ELSE -((-n) \div q)

\* std::round(std::log(d)/std::log(2.)) for d >= 1 tick: the k with
\* 2^(k - 1/2) <= d < 2^(k + 1/2), compared on the squares
round_log2(d) ==
    CHOOSE k \in 0..15 :
        /\ k = 0 \/ d * d >= 2 ^ (2 * k - 1)
        /\ (d * d) \div 2 < 2 ^ (2 * k)

\* a mutant of raw: the horizon is taken from end_ instead of end_ - start_
raw_horizon_of_end(sample) ==
    RawSample(sample.confidence % 4,
              IF sample.clear THEN 1 ELSE 0,
              as_int8(truncated(sample.value - 50000, 390)),
              IF sample.sign THEN 1 ELSE 0,
              round_log2(sample.end) % 16)

\* Sample::raw
raw(sample) ==
    RawSample(sample.confidence % 4,
              IF sample.clear THEN 1 ELSE 0,
              as_int8(truncated(sample.value - 50000, 390)),
              IF sample.sign THEN 1 ELSE 0,
              round_log2(sample.end - sample.start) % 16)

\* samples made with the six-argument constructor, as the tests make them:
\* values between the representable ones and durations between the powers of two
Constructed ==
    { Sample(0, d, sg, v, FALSE, cf) :
        d \in 1..6, sg \in BOOLEAN,
        v \in {80, 20000, 40000, 49805, 49900, 50000, 50100, 50195, 50196,
               60000, 65000, 70000, 99530},
        cf \in {0, 3} }

\* the inputs: a packet with its timestamp, or a constructed sample
CodecInit ==
    /\ lower_by_end = <<>>
    /\ upper_by_end = <<>>
    /\ call \in { [op |-> "packet", now |-> now, data |-> data] :
                    now \in Stamps, data \in Packets }
           \cup { [op |-> "sample", sample |-> s] : s \in Constructed }

\* Sample::from_raw(now, data)
FromRaw ==
    /\ call.op = "packet"
    /\ call' = [op |-> "from_raw", now |-> call.now, data |-> call.data,
                sample |-> from_raw(call.now, call.data)]
    /\ UNCHANGED <<lower_by_end, upper_by_end>>

\* samp.raw() of a decoded sample
RawOfDecoded ==
    /\ call.op = "from_raw"
    /\ call' = [op |-> "raw_of_decoded", now |-> call.now, data |-> call.data,
                sample |-> call.sample, raw |-> raw(call.sample)]
    /\ UNCHANGED <<lower_by_end, upper_by_end>>

\* samp.raw() of a constructed sample
RawOfConstructed ==
    /\ call.op = "sample"
    /\ call' = [op |-> "raw_of_constructed", sample |-> call.sample,
                raw |-> raw(call.sample)]
    /\ UNCHANGED <<lower_by_end, upper_by_end>>

\* Sample::from_raw(samp.start(), bytes of samp.raw())
FromRawAgain ==
    /\ call.op = "raw_of_decoded"
    /\ call' = [op |-> "from_raw_again", now |-> call.now, data |-> call.data,
                sample |-> call.sample, raw |-> call.raw,
                again |-> from_raw(call.sample.start, bytes(call.raw))]
    /\ UNCHANGED <<lower_by_end, upper_by_end>>

CodecNext == FromRaw \/ RawOfDecoded \/ RawOfConstructed \/ FromRawAgain

CodecSpec == CodecInit /\ [][CodecNext]_vars

(* -------------------------------- C12 ---------------------------------- *)

\* the 16-bit little-endian word of two bytes
Word(data) == data[1] + 256 * data[2]

\* bit i of w, and the n bits of w from bit lo up
Bit(w, i) == (w \div (2 ^ i)) % 2

Field(w, lo, n) == (w \div (2 ^ lo)) % (2 ^ n)

\* the distance of two numbers
Dist(a, b) == IF a >= b THEN a - b ELSE b - a

\* C12: for every wire word w and timestamp t, with e = decode(t, w),
\* decode(e.start, encode(e)) has e's direction, confidence and should_clear,
\* its value differs from e's by less than 390 and its end by less than one
\* horizon step (the horizon exponent is the same); encode(decode(t, w)) has
\* the value and horizon fields of w.
C12_RoundTrip ==
    call.op = "from_raw_again" =>
        LET e == call.sample
            again == call.again
            w == Word(call.data)
        IN  /\ again.sign = e.sign
            /\ again.confidence = e.confidence
            /\ again.clear = e.clear
            /\ Dist(again.value, e.value) < 390
            /\ again.start = e.start
            /\ again.end - again.start = e.end - e.start
            /\ call.raw.horizon = Field(w, 12, 4)
            /\ call.raw.value % 256 = Field(w, 3, 8)

\* a packet with a negative value field and the longest horizon, decoded at a
\* timestamp other than 0, was encoded and decoded again
C12_Witness ==
    /\ call.op = "from_raw_again"
    /\ call.now > 0
    /\ call.sample.value < 50000
    /\ call.sample.end - call.sample.start = 2 ^ 15
    /\ call.again = call.sample

(* -------------------------------- C13 ---------------------------------- *)

\* C13: decode is defined for every two-byte pattern and reads the
\* little-endian word as confidence = bits 0-1, clear = bit 2, value = bits
\* 3-10 in two's complement, sign = bit 11 (0 lower, 1 upper), horizon = bits
\* 12-15; the decoded value is 50000 + 390*value and lies in [80, 99530], and
\* end - start is 0.0165 * 2^horizon (2^horizon ticks), strictly positive.
C13_DecodeLayout ==
    /\ call.op = "packet" => ENABLED FromRaw
    /\ call.op = "from_raw" =>
        LET e == call.sample
            w == Word(call.data)
        IN  /\ w \in 0..65535
            /\ e.confidence = Field(w, 0, 2)
            /\ e.clear = (Bit(w, 2) = 1)
            /\ e.value = 50000 + 390 * (Field(w, 3, 8) - 256 * Bit(w, 10))
            /\ e.sign = (Bit(w, 11) = 1)
            /\ e.start = call.now
            /\ e.end - e.start = 2 ^ Field(w, 12, 4)
            /\ e.value >= 80 /\ e.value <= 99530
            /\ e.end > e.start

\* the packet of test_deserialise was decoded: confidence 2, value -16,
\* lower, horizon 5
C13_Witness ==
    /\ call.op = "from_raw"
    /\ call.data = <<130, 87>>
    /\ call.sample.confidence = 2
    /\ call.sample.value = 50000 - 390 * 16
    /\ ~call.sample.sign
    /\ ~call.sample.clear
    /\ call.sample.end - call.sample.start = 32

(* -------------------------------- C14 ---------------------------------- *)

\* round(n / q): the nearest integer, a tie going away from zero
Nearest(n, q) ==
    CHOOSE k \in -128..127 :
        /\ 2 * Dist(n, q * k) <= q
        /\ 2 * Dist(n, q * k) = q => Dist(q * k, 0) > Dist(n, 0)

\* round(log2(d)): the exponent k whose power of two is nearest to d in ratio
NearestExponent(d) ==
    CHOOSE k \in 0..15 :
        /\ 2 * (2 ^ k) * (2 ^ k) > d * d
        /\ k = 0 \/ 2 * d * d >= (2 ^ k) * (2 ^ k)

\* C14: encode gives the nearest representable fields: for a value v in
\* [80, 99530] the value field is round((v - 50000)/390), so the value decoded
\* again is within 195 of v, and the horizon field is the rounded log2 of
\* (end - start)/0.0165.
C14_EncodeNearest ==
    (/\ call.op \in {"raw_of_decoded", "raw_of_constructed"}
     /\ call.sample.value >= 80 /\ call.sample.value <= 99530
     /\ call.sample.end - call.sample.start <= 128)
        => /\ call.raw.value = Nearest(call.sample.value - 50000, 390)
           /\ Dist(value_lx(call.raw), call.sample.value) <= 195
           /\ call.raw.horizon = NearestExponent(call.sample.end - call.sample.start)

(* -------------------------------- C15 ---------------------------------- *)

\* the elements of both collections of p, each with the collection it is in
Elements(p) ==
    { [map |-> "lower", kv |-> p.lower_by_end[i]] : i \in 1..Len(p.lower_by_end) }
        \cup
    { [map |-> "upper", kv |-> p.upper_by_end[i]] : i \in 1..Len(p.upper_by_end) }

\* C15: consume(e) with e.should_clear false removes from both collections
\* exactly the entries with end <= e.start (end = e.start included) and leaves
\* every entry with end > e.start stored, in its collection and unmodified.
\* Across all steps an element leaves the engine only in a consume whose
\* entry clears or starts at or after the element's end, and the only
\* element that enters the engine in a step is the entry that step consumes.
C15_Lifecycle ==
    [][/\ (ConsumeStep /\ ~call'.sample.clear) =>
             \A x \in Elements(meter) :
                 IF x.kv.second.end <= call'.sample.start
                 THEN x \notin Elements(meter_next)
                 ELSE x \in Elements(meter_next)
       /\ \A x \in Elements(meter) \ Elements(meter_next) :
             /\ ConsumeStep
             /\ \/ call'.sample.clear
                \/ call'.sample.start >= x.kv.second.end
       /\ \A x \in Elements(meter_next) \ Elements(meter) :
             /\ ConsumeStep
             /\ x.kv = Pair(call'.sample.end, call'.sample)
             /\ x.map = (IF call'.sample.sign THEN "upper" ELSE "lower")]_vars

\* a non-clearing sample that starts at 1 was consumed and stored, and an
\* entry of the other direction that started earlier and ends later is still
\* stored
C15_Witness ==
    /\ call.op = "consume"
    /\ ~call.sample.clear
    /\ call.sample.start = 1
    /\ call.sample \in Stored(TargetOf(meter, call.sample))
    /\ \E s \in Stored(OtherOf(meter, call.sample)) :
          s.start < call.sample.start /\ s.end > call.sample.start

(* -------------------------------- C16 ---------------------------------- *)

\* the step consumes a sample that is discarded: it does not clear and an
\* entry of the pruned target collection is a superset of it
DiscardStep ==
    /\ ConsumeStep
    /\ ~call'.sample.clear
    /\ find_superset(TargetOf(LiveAt(meter, call'.sample.start), call'.sample),
                     call'.sample)

\* C16: an entry discarded at insertion is redundant: right after the consume
\* lower(), upper() and every estimate(t) are those of the engine that is
\* the same except that it stores the entry.
C16_DiscardedIsRedundant ==
    [][DiscardStep =>
          LET twin == insert_always(meter_next, call'.sample)
          IN  /\ lower(meter_next) = lower(twin)
              /\ upper(meter_next) = upper(twin)
              /\ estimate(meter_next) = estimate(twin)
              /\ \A t \in Times :
                    estimate_at(meter_next, t) = estimate_at(twin, t)]_vars

(* -------------------------------- C17 ---------------------------------- *)

\* C17: right after consume(e), e clearing or not, with e.end > e.start,
\* every stored entry has end > e.start, so estimate(), which applies no
\* expiry, equals estimate(e.start), and estimate(t) for every t up to
\* e.start; estimate() and estimate(t) differ only for t later than e.start.
C17_EstimateAfterConsume ==
    (call.op = "consume" /\ call.sample.end > call.sample.start) =>
        /\ \A s \in Stored(lower_by_end) \cup Stored(upper_by_end) :
              s.end > call.sample.start
        /\ estimate_at(meter, call.sample.start) = estimate(meter)
        /\ \A t \in Times :
              estimate_at(meter, t) # estimate(meter) => t > call.sample.start

\* a sample was consumed after which estimate(t) differs from estimate() for
\* a t later than its start, an entry having expired at t
C17_Witness ==
    /\ call.op = "consume"
    /\ size(meter) = 2
    /\ \E t \in Times :
          /\ t > call.sample.start
          /\ estimate_at(meter, t) # estimate(meter)

(* -------------------------------- C19 ---------------------------------- *)

\* v lies between the values of the two universal samples
InRange(v) == UniversalLowerValue <= v /\ v <= UniversalUpperValue

\* samples with a value outside [0, 100000]
OutOfRange ==
    { Sample(0, 2, sg, v, FALSE, cf) :
        sg \in BOOLEAN, v \in {-5000, 150000}, cf \in Confidences }

\* C19: every consumed value being in [0, 100000], as every wire-decoded
\* value is, lower(), upper(), estimate() and estimate(t) for every t lie in
\* [0, 100000] in every reachable state; and whatever is stored, a value out
\* of range included, lower() is at least 0 and upper() at most 100000.
C19_Envelope ==
    /\ \A s \in Samples : InRange(s.value)
    /\ \A v \in -128..127 : InRange(value_lx([value |-> v]))
    /\ \A p \in Snapshots :
          /\ InRange(lower(p))
          /\ InRange(upper(p))
          /\ InRange(estimate(p))
    /\ \A t \in Times : InRange(estimate_at(meter, t))
    /\ call.op \in {"estimate", "estimate_at"} => InRange(call.value)
    /\ \A p \in Snapshots : \A x \in OutOfRange :
          LET q == insert_always(p, x)
          IN  /\ lower(q) >= UniversalLowerValue
              /\ upper(q) <= UniversalUpperValue

\* estimate(t) was called on an engine whose bounds both come from stored
\* entries, and returned something else than estimate() would
C19_Witness ==
    /\ call.op = "estimate_at"
    /\ lower(meter) = 20000
    /\ upper(meter) = 60000
    /\ call.value # estimate(meter)

(* -------------------------------- C20 ---------------------------------- *)

\* the stored lower and upper entries of p that conflict
ConflictingPairs(p) ==
    { lu \in Stored(p.lower_by_end) \X Stored(p.upper_by_end) :
        conflicts(lu[1], lu[2]) }

\* C20: overrides is asymmetric; in every reachable state and every
\* snapshot lower() > upper() only if the lower entry and the upper entry
\* that supply the two values have equal confidence and equal start; and
\* when every conflicting stored pair differs in confidence or in start,
\* lower() <= upper().
C20_ContradictionOnlyOnTie ==
    /\ call.op = "consume" =>
          \A x \in Samples :
              ~(overrides(call.sample, x) /\ overrides(x, call.sample))
    /\ \A p \in Snapshots :
          LET effective_lower == lower_from(p, 1, universal_lower)
              effective_upper == upper_from(p, 1, universal_upper)
          IN  /\ lower(p) > upper(p) =>
                    /\ effective_lower.confidence = effective_upper.confidence
                    /\ effective_lower.start = effective_upper.start
                    /\ <<effective_lower, effective_upper>> \in ConflictingPairs(p)
              /\ (\A lu \in ConflictingPairs(p) :
                      \/ lu[1].confidence # lu[2].confidence
                      \/ lu[1].start # lu[2].start)
                    => lower(p) <= upper(p)

\* a contradiction is left standing: two stored entries tie and lower() is
\* above upper(), while another conflicting pair of the engine is arbitrated
C20_Witness ==
    /\ call.op = "consume"
    /\ lower(meter) > upper(meter)
    /\ \E t \in Times : lower(as_of(meter, t)) <= upper(as_of(meter, t))

(* ------------------- estimate(now) beside a consume -------------------- *)
(* One thread calls estimate(now) and another consume(sample) on the same *)
(* engine with no lock between them.  A step is one operation on one       *)
(* collection: the as-of constructor initialises lower_by_end and then     *)
(* upper_by_end; consume clears or erases lower_by_end, then upper_by_end, *)
(* then searches and inserts.  call holds both calls in flight.            *)

\* the samples the writing thread consumes: one value for each direction,
\* every interval, clearing or not
Writes ==
    { s \in Samples :
        s.confidence = 0 /\ s.value = (IF s.sign THEN 60000 ELSE 20000) }

\* no call in flight on a thread
Idle == [pc |-> "idle"]

\* clear() or the erase of erase_old on one collection m
erase_for(m, sample) ==
    IF sample.clear THEN <<>> ELSE erase_upto(m, sample.start)

\* the reading thread's call after a step of the writing thread: a returned
\* result is forgotten, a call in flight is no longer serialized
Disturbed(reading) ==
    IF reading.pc = "copied_lower"
    THEN [reading EXCEPT !.serial = FALSE]
    ELSE Idle

\* the reading thread's call after the writing thread completed a consume
\* that left the engine p
Overtaken(reading, p) ==
    IF reading.pc = "copied_lower"
    THEN [reading EXCEPT !.serial = FALSE,
                         !.consumes = IF @ < 2 THEN @ + 1 ELSE @,
                         !.seen = @ \cup {estimate_at(p, reading.now)}]
    ELSE Idle

ConcurrentInit ==
    /\ lower_by_end = <<>>
    /\ upper_by_end = <<>>
    /\ call = [op |-> "new", estimate |-> Idle, consume |-> Idle]

\* estimate(now) begins: the as-of constructor initialises its lower_by_end
EstimateCopyLower(now) ==
    /\ call.estimate.pc \in {"idle", "done"}
    /\ call' = [call EXCEPT
                  !.op = "copy_lower",
                  !.estimate =
                      [pc |-> "copied_lower",
                       now |-> now,
                       lower_by_end |-> copy_from(lower_by_end, now),
                       serial |-> call.consume.pc = "idle",
                       consumes |-> 0,
                       seen |-> IF call.consume.pc = "idle"
                                THEN {estimate_at(meter, now)}
                                ELSE {}]]
    /\ UNCHANGED <<lower_by_end, upper_by_end>>

\* a mutant of EstimateCopyUpper: the upper collection is copied whole
EstimateCopyUpperUnfiltered ==
    /\ call.estimate.pc = "copied_lower"
    /\ LET as_of_now == Meter(call.estimate.lower_by_end, upper_by_end)
       IN  call' = [call EXCEPT
                      !.op = "estimate_at",
                      !.estimate =
                          [pc |-> "done",
                           now |-> @.now,
                           lower_by_end |-> @.lower_by_end,
                           serial |-> @.serial,
                           consumes |-> @.consumes,
                           seen |-> @.seen,
                           value |-> estimate(as_of_now)]]
    /\ UNCHANGED <<lower_by_end, upper_by_end>>

\* the as-of constructor initialises its upper_by_end, and estimate(now)
\* returns the estimate of the copy
EstimateCopyUpper ==
    /\ call.estimate.pc = "copied_lower"
    /\ LET as_of_now == Meter(call.estimate.lower_by_end,
                              copy_from(upper_by_end, call.estimate.now))
       IN  call' = [call EXCEPT
                      !.op = "estimate_at",
                      !.estimate =
                          [pc |-> "done",
                           now |-> @.now,
                           lower_by_end |-> @.lower_by_end,
                           serial |-> @.serial,
                           consumes |-> @.consumes,
                           seen |-> @.seen,
                           value |-> estimate(as_of_now)]]
    /\ UNCHANGED <<lower_by_end, upper_by_end>>

\* consume(sample) begins: lower_by_end.clear(), or the first erase of erase_old
ConsumeEraseLower(sample) ==
    /\ call.consume.pc = "idle"
    /\ size(consume(meter, sample)) <= MaxSize
    /\ lower_by_end' = erase_for(lower_by_end, sample)
    /\ call' = [op |-> "erase_lower",
                estimate |-> Disturbed(call.estimate),
                consume |-> [pc |-> "erased_lower", sample |-> sample]]
    /\ UNCHANGED upper_by_end

\* upper_by_end.clear(), or the second erase of erase_old
ConsumeEraseUpper ==
    /\ call.consume.pc = "erased_lower"
    /\ upper_by_end' = erase_for(upper_by_end, call.consume.sample)
    /\ call' = [op |-> "erase_upper",
                estimate |-> Disturbed(call.estimate),
                consume |-> [call.consume EXCEPT !.pc = "erased"]]
    /\ UNCHANGED lower_by_end

\* the search of the target collection and the emplace; consume returns
ConsumeInsert ==
    /\ call.consume.pc = "erased"
    /\ LET after == insert_unless_subset(meter, call.consume.sample)
       IN  /\ lower_by_end' = after.lower_by_end
           /\ upper_by_end' = after.upper_by_end
           /\ call' = [op |-> "consume",
                       estimate |-> Overtaken(call.estimate, after),
                       consume |-> Idle]

ConcurrentNext ==
    \/ \E now \in Times : EstimateCopyLower(now)
    \/ EstimateCopyUpper
    \/ \E sample \in Writes : ConsumeEraseLower(sample)
    \/ ConsumeEraseUpper
    \/ ConsumeInsert

ConcurrentSpec == ConcurrentInit /\ [][ConcurrentNext]_vars

(* -------------------------------- C18 ---------------------------------- *)

\* C18: when consume and estimate(t) are serialized (no consume is in flight
\* when estimate(t) begins and none takes a step before it returns), the
\* value returned is the as-of-t estimate of the engine; a consume between
\* the two copies can leave a value that is the as-of-t estimate of no state
\* the engine was in before or after that consume (C18_Witness).
C18_SerializedIsAtomic ==
    (call.op = "estimate_at" /\ call.estimate.serial) =>
        /\ call.estimate.value = estimate_at(meter, call.estimate.now)
        /\ call.estimate.seen = {call.estimate.value}

\* estimate(t) returned after exactly one consume ran between its two
\* copies: the lower collection it copied is not the one the engine has,
\* and its value is the as-of-t estimate neither of the engine before that
\* consume nor of the engine after it
C18_Witness ==
    /\ call.op = "estimate_at"
    /\ call.consume.pc = "idle"
    /\ call.estimate.consumes = 1
    /\ Cardinality(call.estimate.seen) = 2
    /\ call.estimate.value \notin call.estimate.seen
    /\ call.estimate.lower_by_end # copy_from(lower_by_end, call.estimate.now)

(* -------------------------------- C21 ---------------------------------- *)

\* C21: consume is idempotent: right after consume(e), e clearing or not,
\* consuming e again leaves both collections as they are, and therefore
\* size(), lower(), upper() and every estimate(t).
C21_ConsumeIdempotent ==
    call.op = "consume" =>
        LET again == consume(meter, call.sample)
        IN  /\ again.lower_by_end = lower_by_end
            /\ again.upper_by_end = upper_by_end
            /\ size(again) = size(meter)
            /\ lower(again) = lower(meter)
            /\ upper(again) = upper(meter)
            /\ \A t \in Times : estimate_at(again, t) = estimate_at(meter, t)

\* a sample that does not clear was consumed and discarded, a stored entry
\* being a superset of it, while the other collection holds an entry
C21_Witness ==
    /\ call.op = "consume"
    /\ ~call.sample.clear
    /\ call.sample \notin Stored(TargetOf(meter, call.sample))
    /\ OtherOf(meter, call.sample) # <<>>

====
